---- MODULE Spec2Model ----
(***************************************************************************)
(* Model of src/cifar.py: the epoch loop of main() with its learning-rate  *)
(* schedule, best-accuracy tracking, checkpoint save / resume, and the     *)
(* evaluate-only branch with its class-frequency weight rescaling.         *)
(*                                                                         *)
(* One behaviour is a sequence of process runs of the script sharing one   *)
(* checkpoint directory: the first run starts on an empty directory, a     *)
(* later run is launched with --resume on one of the two checkpoint files. *)
(* Rationals (learning rates, gamma, RS) are pairs <<num, den>> multiplied *)
(* as the code multiplies them and compared by cross-multiplication.       *)
(***************************************************************************)
EXTENDS Integers, Sequences, FiniteSets, TLC

(* ------------------------------ bounds -------------------------------- *)

\* Largest value of --epochs explored.
MaxEpochs == 4

\* Number of times the script is launched again with --resume.
MaxResumes == 1

(* ------------------------- rational arithmetic ------------------------ *)

RatEq(a, b) == a[1] * b[2] = b[1] * a[2]

RatMul(a, b) == <<a[1] * b[1], a[2] * b[2]>>

RECURSIVE RatPow(_, _)
RatPow(a, k) == IF k = 0 THEN <<1, 1>> ELSE RatMul(a, RatPow(a, k - 1))

(* ------------------------- command-line inputs ------------------------ *)

\* --lr default 0.1 (line 48).
DefaultLr == <<1, 10>>

\* --gamma: the default 0.1 (line 54) and one more factor in (0, 1).
Gammas == {<<1, 10>>, <<1, 2>>}

\* --schedule lists (line 52); <<1, 3>> is the default [80, 150] scaled to
\* MaxEpochs, <<2, 2, 9>> repeats an epoch and names one that never starts.
Schedules == {<<1, 3>>, <<0, 2>>, <<2, 2, 9>>}

\* Top-1 test accuracies test() may return (percent).
AccValues == {40, 50, 55, 60}

\* --start-epoch values (line 42).
StartEpochs == {0, 1, MaxEpochs}

\* --epochs values (line 40).
EpochCounts == {0, 2, MaxEpochs}

\* --imbalance values (line 37), all >= 1.
Imbalances == {1, 10, 100}

\* --RS values (line 85): 0, the default 0.1, 1 and a large strength.
Strengths == {<<0, 1>>, <<1, 10>>, <<1, 1>>, <<3000, 1>>}

\* --dataset values accepted by the assert of line 99.
Datasets == {"cifar10", "cifar100"}

VARIABLES
    args,          \* parsed command line (line 95)
    trueDiv,       \* whether int / int is true division in the interpreter
    pc,            \* position of the running process in main()
    state_lr,      \* state['lr'] (line 96)
    optimizer,     \* [param_groups: Seq([lr]), steps]
    model,         \* [steps, fc]: trained parameters and fc-row divisors
    best_acc,      \* module global best_acc (line 114)
    start_epoch,   \* local start_epoch of main()
    epoch,         \* loop variable of line 257
    test_acc,      \* last result of test()
    is_best,       \* local is_best (line 273)
    checkpoint,    \* record loaded by torch.load (line 221)
    fs,            \* checkpoint directory: [latest, best]
    num_sample,    \* local num_sample (line 239)
    ns,            \* local ns after line 244
    logged,        \* last run-log line: <<epoch + 1, lr>> (line 267)
    printed,       \* value printed by line 285, or -1
    trace,         \* history: phases executed by this process
    accs,          \* history: test accuracies seen by this process
    flags,         \* history: is_best flags computed by this process
    bestOnDisk,    \* history: acc of the last complete model_best.pth.tar
    resumes        \* number of --resume launches so far

vars == <<args, trueDiv, pc, state_lr, optimizer, model, best_acc,
          start_epoch, epoch, test_acc, is_best, checkpoint, fs,
          num_sample, ns, logged, printed, trace, accs, flags,
          bestOnDisk, resumes>>

(* ------------------------------ data ---------------------------------- *)

\* num_classes of lines 146-149.
NumClasses(dataset) == IF dataset = "cifar10" THEN 10 ELSE 100

\* A freshly constructed model (lines 169-203): no training step applied,
\* no fc row divided by anything.
FreshModel(dataset) ==
    [steps |-> 0, fc |-> [i \in 0 .. NumClasses(dataset) - 1 |-> <<>>]]

\* optim.SGD(model.parameters(), lr=args.lr, ...) (lines 208-210): one
\* parameter group.
FreshOptimizer(lr) == [param_groups |-> <<[lr |-> lr]>>, steps |-> 0]

NullRecord ==
    [epoch |-> 0, state_dict |-> FreshModel("cifar10"), acc |-> 0,
     best_acc |-> 0, optimizer |-> FreshOptimizer(DefaultLr)]

NoFile == [status |-> "none", rec |-> NullRecord]

PartialFile == [status |-> "partial", rec |-> NullRecord]

CompleteFile(rec) == [status |-> "complete", rec |-> rec]

(* ------------------- learning-rate schedule (383-388) ----------------- *)

\* Mutant of InSchedule: the test `epoch >= some schedule entry`.
PastSchedule(ep, schedule) == \E i \in DOMAIN schedule : schedule[i] <= ep

\* `epoch in args.schedule` (line 385).
InSchedule(ep, schedule) == \E i \in DOMAIN schedule : schedule[i] = ep

\* state['lr'] after adjust_learning_rate(optimizer, ep) (lines 385-386).
AdjustedLr(lr, ep, schedule, gamma) ==
    IF InSchedule(ep, schedule) THEN RatMul(lr, gamma) ELSE lr

\* optimizer.param_groups after adjust_learning_rate (lines 385-388): every
\* group receives the new state['lr'], only at a schedule epoch.
AdjustedGroups(groups, lr, ep, schedule, gamma) ==
    IF InSchedule(ep, schedule)
    THEN [g \in DOMAIN groups |->
            [groups[g] EXCEPT !.lr = AdjustedLr(lr, ep, schedule, gamma)]]
    ELSE groups

(* ---------------------- best tracking (273-274) ----------------------- *)

\* Mutant of IsBest: a tie counts as an improvement.
IsBestOrTie(acc, best) == acc >= best

\* is_best = test_acc > best_acc (line 273).
IsBest(acc, best) == acc > best

\* Mutant of MaxAcc: the latest accuracy replaces the best.
LastAcc(acc, best) == acc

\* best_acc = max(test_acc, best_acc) (line 274).
MaxAcc(acc, best) == IF best > acc THEN best ELSE acc

(* ------------------------ checkpoint (275-281) ------------------------ *)

\* The dict passed to save_checkpoint (lines 275-281).
CheckpointRecord(ep, mdl, acc, best, opt) ==
    [epoch |-> ep + 1, state_dict |-> mdl, acc |-> acc, best_acc |-> best,
     optimizer |-> opt]

\* Mutant of ResumeEpoch: one past the stored epoch field.
ResumeEpochPlusOne(rec) == rec.epoch + 1

\* start_epoch = checkpoint['epoch'] (line 223).
ResumeEpoch(rec) == rec.epoch

\* best_acc = checkpoint['best_acc'] (line 222).
ResumeBest(rec) == rec.best_acc

\* Mutant of InRange: the upper end is included.
InRangeInclusive(ep, epochs) == ep <= epochs

\* range(start_epoch, args.epochs) still has the value ep (line 257).
InRange(ep, epochs) == ep < epochs

\* The loop variable of the next iteration (line 257).
NextEpoch(ep) == ep + 1

(* ------------- positive reals of the rescaling (237-245) -------------- *)
(* The rescaling multiplies, divides and raises to rational powers, with   *)
(* one base b = args.imbalance. A value is (mn / md) * b^(en / ed), or     *)
(* zero after a conversion underflowed.                                    *)

Val(mn, md, b, en, ed) ==
    [kind |-> "fin", mn |-> mn, md |-> md, b |-> b, en |-> en, ed |-> ed]

Zero(b) == [kind |-> "zero", mn |-> 0, md |-> 1, b |-> b, en |-> 0, ed |-> 1]

\* int / int of the interpreter: a float under true division, the floor
\* under Python 2 division (the file imports only print_function).
IntDiv(a, b, true) == IF true THEN <<a, b>> ELSE <<a \div b, 1>>

\* x ** q for a rational q; the mantissa is 1 wherever the code does this.
ValPow(x, q) == Val(x.mn, x.md, x.b, x.en * q[1], x.ed * q[2])

\* m * x for an integer m.
ValScale(m, x) == Val(m * x.mn, x.md, x.b, x.en, x.ed)

\* x > y for two values of one mantissa and one base b >= 1.
ValGt(x, y) == x.b > 1 /\ x.en * y.ed > y.en * x.ed

\* x / y; equal mantissas cancel.
ValDiv(x, y) ==
    LET mn == x.mn * y.md
        md == x.md * y.mn
    IN  Val(IF mn = md THEN 1 ELSE mn, IF mn = md THEN 1 ELSE md, x.b,
            x.en * y.ed - y.en * x.ed, x.ed * y.ed)

RECURSIVE Log2Floor(_)
Log2Floor(n) == IF n < 2 THEN 0 ELSE 1 + Log2Floor(n \div 2)

\* torch.FloatTensor(...) of line 244 on a value b^(en/ed) <= 1: IEEE
\* single precision rounds magnitudes of at most 2^-150 to zero. The test
\* uses floor(log2 b), so it reports only underflows that are certain; for
\* the command lines explored no value lies between that bound and the one
\* below which a value is certainly kept, so the conversion is exact here.
ToFloat32(x) ==
    IF x.en < 0 /\ (0 - x.en) * Log2Floor(x.b) >= 150 * x.ed
    THEN Zero(x.b)
    ELSE x

\* max(list) of line 242 over a list indexed 0 .. last: the first element
\* that no element exceeds, which every earlier element is below.
MaxOf(f, last) ==
    f[CHOOSE i \in 0 .. last :
          /\ \A j \in 0 .. last : ~ValGt(f[j], f[i])
          /\ \A k \in 0 .. i - 1 : ValGt(f[i], f[k])]

(* ----------------------- rescaling (237-245) -------------------------- *)

\* Mutant of ImbFactor: the imbalance itself, not its reciprocal.
ImbFactorInverted(r) == Val(1, 1, r, 1, 1)

\* imb_factor = 1. / args.imbalance (line 237).
ImbFactor(r) == Val(1, 1, r, -1, 1)

\* img_max = 50000/num_classes (line 238); exact under both divisions.
ImgMax(C) == 50000 \div C

\* num_sample[i] (lines 239-240).
NumSampleAt(i, C, r, true) ==
    ValScale(ImgMax(C), ValPow(ImbFactor(r), IntDiv(i, C - 1, true)))

\* One element of ns after lines 242-244, from its num_sample element n
\* and max(num_sample).
NsOf(n, largest, RS) == ToFloat32(ValPow(ValDiv(n, largest), RS))

\* Row i of new_W = W / ns (line 245): one more divisor on the row.
DividedRow(row, divisor) == Append(row, divisor)

(* ------------------------------ Init ---------------------------------- *)

\* Command lines of a training run: the rescaling options keep one value.
TrainArgs ==
    [epochs : EpochCounts, start_epoch : StartEpochs, lr : {DefaultLr},
     gamma : Gammas, schedule : Schedules, resume : {""},
     evaluate : {FALSE}, dataset : {"cifar10"}, imbalance : {100},
     RS : {<<1, 10>>}]

\* Command lines of an evaluate-only run: the training options keep their
\* defaults scaled to MaxEpochs.
EvalArgs ==
    [epochs : {MaxEpochs}, start_epoch : {0}, lr : {DefaultLr},
     gamma : {<<1, 10>>}, schedule : {<<1, 3>>}, resume : {""},
     evaluate : {TRUE}, dataset : Datasets, imbalance : Imbalances,
     RS : Strengths]

\* Process state after the module-level code (lines 95-114) has run.
Init ==
    /\ args \in TrainArgs \cup EvalArgs
    /\ trueDiv \in (IF args.evaluate THEN BOOLEAN ELSE {TRUE})
    /\ pc = "Init"
    /\ state_lr = args.lr
    /\ optimizer = FreshOptimizer(args.lr)
    /\ model = FreshModel(args.dataset)
    /\ best_acc = 0
    /\ start_epoch = args.start_epoch
    /\ epoch = args.start_epoch
    /\ test_acc = 0
    /\ is_best = FALSE
    /\ checkpoint = NullRecord
    /\ fs = [latest |-> NoFile, best |-> NoFile]
    /\ num_sample = <<>>
    /\ ns = <<>>
    /\ logged = <<>>
    /\ printed = -1
    /\ trace = <<>>
    /\ accs = <<>>
    /\ flags = <<>>
    /\ bestOnDisk = -1
    /\ resumes = 0

(* ----------------------------- main() --------------------------------- *)

\* Lines 118-226: setup, model and optimizer construction, and the resume
\* block. A missing resume file fails the assert of line 218, a truncated
\* one makes torch.load raise; both end the process before any epoch.
MainInit ==
    /\ pc = "Init"
    /\ IF args.resume # "" /\ fs[args.resume].status # "complete"
       THEN /\ pc' = "Failed"
            /\ UNCHANGED <<checkpoint, best_acc, start_epoch, epoch, model,
                           optimizer>>
       ELSE /\ IF args.resume # ""
               THEN /\ checkpoint' = fs[args.resume].rec
                    /\ best_acc' = ResumeBest(checkpoint')
                    /\ start_epoch' = ResumeEpoch(checkpoint')
                    /\ model' = checkpoint'.state_dict
                    /\ optimizer' = checkpoint'.optimizer
               ELSE /\ model' = FreshModel(args.dataset)
                    /\ optimizer' = FreshOptimizer(args.lr)
                    /\ UNCHANGED <<checkpoint, best_acc, start_epoch>>
            /\ epoch' = start_epoch'
            /\ pc' = IF args.evaluate THEN "EvalBefore" ELSE "LoopHead"
    /\ UNCHANGED <<args, trueDiv, state_lr, test_acc, is_best, fs,
                   num_sample, ns, logged, printed, trace, accs, flags,
                   bestOnDisk, resumes>>

\* Line 257, and lines 284-285 when the range is exhausted.
LoopHead ==
    /\ pc = "LoopHead"
    /\ IF InRange(epoch, args.epochs)
       THEN pc' = "Training" /\ UNCHANGED printed
       ELSE pc' = "Done" /\ printed' = best_acc
    /\ UNCHANGED <<args, trueDiv, state_lr, optimizer, model, best_acc,
                   start_epoch, epoch, test_acc, is_best, checkpoint, fs,
                   num_sample, ns, logged, trace, accs, flags, bestOnDisk,
                   resumes>>

\* Lines 258-263: adjust_learning_rate, then train(), which updates the
\* parameters and the optimizer's momentum buffers once per batch.
Training ==
    /\ pc = "Training"
    /\ state_lr' = AdjustedLr(state_lr, epoch, args.schedule, args.gamma)
    /\ optimizer' =
         [param_groups |->
              AdjustedGroups(optimizer.param_groups, state_lr, epoch,
                             args.schedule, args.gamma),
          steps |-> optimizer.steps + 1]
    /\ model' = [model EXCEPT !.steps = @ + 1]
    /\ trace' = Append(trace, [ph |-> "Training", ep |-> epoch])
    /\ pc' = "Evaluating"
    /\ UNCHANGED <<args, trueDiv, best_acc, start_epoch, epoch, test_acc,
                   is_best, checkpoint, fs, num_sample, ns, logged, printed,
                   accs, flags, bestOnDisk, resumes>>

\* Lines 264-270: test(), then the run-log line with state['lr'].
Evaluating ==
    /\ pc = "Evaluating"
    /\ \E a \in AccValues : test_acc' = a
    /\ logged' = <<epoch + 1, state_lr>>
    /\ accs' = Append(accs, test_acc')
    /\ trace' = Append(trace, [ph |-> "Evaluating", ep |-> epoch])
    /\ pc' = "Checkpointing"
    /\ UNCHANGED <<args, trueDiv, state_lr, optimizer, model, best_acc,
                   start_epoch, epoch, is_best, checkpoint, fs, num_sample,
                   ns, printed, flags, bestOnDisk, resumes>>

\* Lines 273-281 and 378-379 up to the point where torch.save has opened
\* checkpoint.pth.tar for writing: the old content is gone.
Checkpointing ==
    /\ pc = "Checkpointing"
    /\ is_best' = IsBest(test_acc, best_acc)
    /\ best_acc' = MaxAcc(test_acc, best_acc)
    /\ flags' = Append(flags, is_best')
    /\ fs' = [fs EXCEPT !.latest = PartialFile]
    /\ trace' = Append(trace, [ph |-> "Checkpointing", ep |-> epoch])
    /\ pc' = "Writing"
    /\ UNCHANGED <<args, trueDiv, state_lr, optimizer, model, start_epoch,
                   epoch, test_acc, checkpoint, num_sample, ns, logged,
                   printed, accs, bestOnDisk, resumes>>

\* Line 379 completes; line 380 decides whether the copy follows.
SaveWritten ==
    /\ pc = "Writing"
    /\ fs' = [fs EXCEPT !.latest =
                 CompleteFile(CheckpointRecord(epoch, model, test_acc,
                                               best_acc, optimizer))]
    /\ IF is_best
       THEN pc' = "CopyBest" /\ UNCHANGED epoch
       ELSE pc' = "LoopHead" /\ epoch' = NextEpoch(epoch)
    /\ UNCHANGED <<args, trueDiv, state_lr, optimizer, model, best_acc,
                   start_epoch, test_acc, is_best, checkpoint, num_sample,
                   ns, logged, printed, trace, accs, flags, bestOnDisk,
                   resumes>>

\* Line 382: shutil.copyfile opens model_best.pth.tar for writing, which
\* truncates it in place.
CopyOpened ==
    /\ pc = "CopyBest"
    /\ fs' = [fs EXCEPT !.best = PartialFile]
    /\ pc' = "Copying"
    /\ UNCHANGED <<args, trueDiv, state_lr, optimizer, model, best_acc,
                   start_epoch, epoch, test_acc, is_best, checkpoint,
                   num_sample, ns, logged, printed, trace, accs, flags,
                   bestOnDisk, resumes>>

\* Line 382 completes: the best file holds the bytes of the latest file.
CopyDone ==
    /\ pc = "Copying"
    /\ fs' = [fs EXCEPT !.best = fs.latest]
    /\ bestOnDisk' = fs.latest.rec.acc
    /\ epoch' = NextEpoch(epoch)
    /\ pc' = "LoopHead"
    /\ UNCHANGED <<args, trueDiv, state_lr, optimizer, model, best_acc,
                   start_epoch, test_acc, is_best, checkpoint, num_sample,
                   ns, logged, printed, trace, accs, flags, resumes>>

(* ------------------- evaluate-only branch (228-254) ------------------- *)

\* Mutant of AfterSecondTest: the return is missing and main() goes on to
\* the epoch loop.
FallThrough == "LoopHead"

\* `return` of line 254.
AfterSecondTest == "Returned"

\* Lines 230-232: the first test().
EvalBefore ==
    /\ pc = "EvalBefore"
    /\ \E a \in AccValues : test_acc' = a
    /\ trace' = Append(trace, [ph |-> "Test", ep |-> start_epoch])
    /\ pc' = "Rescale"
    /\ UNCHANGED <<args, trueDiv, state_lr, optimizer, model, best_acc,
                   start_epoch, epoch, is_best, checkpoint, fs, num_sample,
                   ns, logged, printed, accs, flags, bestOnDisk, resumes>>

\* Lines 234-248: the class frequency profile, the per-class factors, and
\* the division of the classifier rows, loaded back into the model.
Rescale ==
    /\ pc = "Rescale"
    /\ LET C == NumClasses(args.dataset) IN
         /\ num_sample' =
              [i \in 0 .. C - 1 |-> NumSampleAt(i, C, args.imbalance, trueDiv)]
         /\ \E largest \in {MaxOf(num_sample', C - 1)} :
              ns' = [i \in 0 .. C - 1 |-> NsOf(num_sample'[i], largest, args.RS)]
         /\ model' = [model EXCEPT !.fc =
                         [i \in 0 .. C - 1 |-> DividedRow(model.fc[i], ns'[i])]]
    /\ trace' = Append(trace, [ph |-> "Rescale", ep |-> start_epoch])
    /\ pc' = "EvalAfter"
    /\ UNCHANGED <<args, trueDiv, state_lr, optimizer, best_acc,
                   start_epoch, epoch, test_acc, is_best, checkpoint, fs,
                   logged, printed, accs, flags, bestOnDisk, resumes>>

\* Lines 250-254: the second test(), then return.
EvalAfter ==
    /\ pc = "EvalAfter"
    /\ \E a \in AccValues : test_acc' = a
    /\ trace' = Append(trace, [ph |-> "Test", ep |-> start_epoch])
    /\ pc' = AfterSecondTest
    /\ UNCHANGED <<args, trueDiv, state_lr, optimizer, model, best_acc,
                   start_epoch, epoch, is_best, checkpoint, fs, num_sample,
                   ns, logged, printed, accs, flags, bestOnDisk, resumes>>

(* ---------------------------- environment ----------------------------- *)

Running ==
    {"Init", "LoopHead", "Training", "Evaluating", "Checkpointing",
     "Writing", "CopyBest", "Copying", "EvalBefore", "Rescale", "EvalAfter"}

\* The process is killed; the files stay as they are.
Crash ==
    /\ pc \in Running
    /\ pc' = "Crashed"
    /\ UNCHANGED <<args, trueDiv, state_lr, optimizer, model, best_acc,
                   start_epoch, epoch, test_acc, is_best, checkpoint, fs,
                   num_sample, ns, logged, printed, trace, accs, flags,
                   bestOnDisk, resumes>>

\* The script is started again on the same directory with --resume naming
\* one of its two files, with or without --evaluate: a new process, whose
\* module-level state is that of lines 95-114.
Relaunch ==
    /\ pc \in {"Done", "Returned", "Crashed", "Failed"}
    /\ resumes < MaxResumes
    /\ \E path \in {"latest", "best"}, ev \in BOOLEAN :
         args' = [args EXCEPT !.resume = path, !.evaluate = ev]
    /\ resumes' = resumes + 1
    /\ pc' = "Init"
    /\ state_lr' = args.lr
    /\ optimizer' = FreshOptimizer(args.lr)
    /\ model' = FreshModel(args.dataset)
    /\ best_acc' = 0
    /\ start_epoch' = args.start_epoch
    /\ epoch' = args.start_epoch
    /\ test_acc' = 0
    /\ is_best' = FALSE
    /\ checkpoint' = NullRecord
    /\ num_sample' = <<>>
    /\ ns' = <<>>
    /\ logged' = <<>>
    /\ printed' = -1
    /\ trace' = <<>>
    /\ accs' = <<>>
    /\ flags' = <<>>
    /\ UNCHANGED <<trueDiv, fs, bestOnDisk>>

(* --------------------------- specifications --------------------------- *)

Step ==
    \/ MainInit
    \/ LoopHead
    \/ Training
    \/ Evaluating
    \/ Checkpointing
    \/ SaveWritten
    \/ CopyOpened
    \/ CopyDone
    \/ EvalBefore
    \/ Rescale
    \/ EvalAfter

Next ==
    \/ Step
    \/ Crash
    \/ Relaunch

Spec == Init /\ [][Next]_vars

\* Runs that are never killed: main() is one thread of blocking calls, so a
\* process that can take a step takes it.
LiveNext ==
    \/ Step
    \/ Relaunch

LiveSpec == Init /\ [][LiveNext]_vars /\ WF_vars(Step)

(* ------------------------- derived quantities ------------------------- *)

\* The process has loaded the record named by --resume.
Resumed == args.resume # "" /\ pc \notin {"Init", "Failed"} /\
           (pc = "Crashed" => trace # <<>>)

\* best_acc of the process before its first epoch.
InitialBest == IF Resumed THEN checkpoint.best_acc ELSE 0

RECURSIVE BestAfter(_, _, _)
\* The largest of b and the first k accuracies of the sequence a.
BestAfter(a, k, b) ==
    IF k = 0 THEN b
    ELSE LET prev == BestAfter(a, k - 1, b)
         IN  IF a[k] > prev THEN a[k] ELSE prev

\* Epoch indices whose Training phase this process has executed.
StartedEpochs == {trace[i].ep : i \in {j \in DOMAIN trace : trace[j].ph = "Training"}}

\* Schedule epochs among a set of epoch indices, each counted once.
DecaysIn(S) == Cardinality({e \in S : InSchedule(e, args.schedule)})

(* ------------------------------- C1 ----------------------------------- *)

\* C1: every is_best flag of a process equals (that epoch's test accuracy >
\* the best accuracy before the epoch), a tie giving false, and best_acc is
\* the maximum of the starting best and all accuracies checkpointed so far;
\* accuracies 40, 55, 50, 60 from best 0 give flags T, T, F, T and best 60.
C1_BestTracking ==
    /\ Len(flags) <= Len(accs)
    /\ \A k \in DOMAIN flags :
         /\ flags[k] = (accs[k] > BestAfter(accs, k - 1, InitialBest))
         /\ accs[k] = BestAfter(accs, k - 1, InitialBest) => ~flags[k]
    /\ (pc # "Init" /\ pc # "Failed" /\ (pc = "Crashed" => flags # <<>>))
         => best_acc = BestAfter(accs, Len(flags), InitialBest)
    /\ (args.resume = "" /\ accs = <<40, 55, 50, 60>> /\ Len(flags) = 4)
         => flags = <<TRUE, TRUE, FALSE, TRUE>> /\ best_acc = 60

\* C1 witness: the fresh run of the example has finished and printed 60.
C1_Witness ==
    /\ pc = "Done" /\ args.resume = ""
    /\ accs = <<40, 55, 50, 60>> /\ Len(flags) = 4 /\ printed = 60

(* ------------------------------- C2 ----------------------------------- *)

\* The first epoch index the loop of this process executed.
FirstEpoch == trace[1].ep

\* C2 as stated: a resumed training run restores parameters, optimizer
\* state and best accuracy, and its first epoch is the loaded record's
\* epoch field + 1.
C2_Original ==
    (Resumed /\ ~args.evaluate /\ trace # <<>>)
        => FirstEpoch = checkpoint.epoch + 1

\* C2 amended: every record is saved with epoch field = index of the epoch
\* just run + 1; a resumed run restores parameters, optimizer state and
\* best accuracy from the record and its first epoch is the record's epoch
\* field itself.
C2_ResumeAtRecordEpoch ==
    /\ [](Resumed => /\ checkpoint = fs[args.resume].rec \/ trace # <<>>
                     /\ start_epoch = checkpoint.epoch
                     /\ trace = <<>> =>
                          /\ model = checkpoint.state_dict
                          /\ optimizer = checkpoint.optimizer
                          /\ best_acc = checkpoint.best_acc
                          /\ epoch = checkpoint.epoch
                     /\ (~args.evaluate /\ trace # <<>>) =>
                          /\ trace[1].ph = "Training"
                          /\ FirstEpoch = checkpoint.epoch)
    /\ [][(pc = "Writing" /\ pc' # "Crashed")
             => /\ fs'.latest.status = "complete"
                /\ fs'.latest.rec.epoch = epoch + 1]_vars

\* C2 witness: a run resumed from a record saved during epoch 1 (epoch
\* field 2) has trained epoch 2 as its first epoch.
C2_Witness ==
    /\ Resumed /\ ~args.evaluate /\ checkpoint.epoch = 2
    /\ trace # <<>> /\ FirstEpoch = 2 /\ pc = "Evaluating"

(* ------------------------------- C3 ----------------------------------- *)

\* C3: within a process best_acc never decreases; every completed write of
\* the best file stores an accuracy strictly above the one it replaces and
\* above the best accuracy before that epoch; after a resume from a record
\* with best_acc = b, best_acc, every saved record and the printed result
\* stay at or above b.
C3_BestMonotone ==
    [][/\ pc' # "Init" => best_acc' >= best_acc
       /\ (fs'.best # fs.best /\ fs'.best.status = "complete")
            => /\ fs'.best.rec.acc > bestOnDisk
               /\ fs'.best.rec.acc = fs'.best.rec.best_acc
               /\ fs'.best.rec.acc = best_acc
       /\ Resumed' =>
            /\ best_acc' >= checkpoint'.best_acc
            /\ bestOnDisk' >= bestOnDisk
            /\ (fs'.latest # fs.latest /\ fs'.latest.status = "complete")
                 => fs'.latest.rec.best_acc >= checkpoint'.best_acc
            /\ pc' = "Done" => printed' >= checkpoint'.best_acc]_vars

\* C3 witness: a run resumed with best 55 saw the lower accuracy 50, kept
\* 55, then saw 60, replaced the best file and finished.
C3_Witness ==
    /\ Resumed /\ checkpoint.best_acc = 55 /\ accs = <<50, 60>>
    /\ pc = "Done" /\ printed = 60
    /\ fs.best.status = "complete" /\ fs.best.rec.acc = 60

(* ------------------------------- C4 ----------------------------------- *)

\* C4: in a run that was not resumed, state['lr'] and the rate of every
\* parameter group equal lr0 * gamma^k, k the number of distinct schedule
\* epochs started so far; for schedule [1, 3] and gamma 0.1 the rate is
\* 0.1 before epoch 1, 0.01 from epoch 1 and 0.001 from epoch 3.
C4_StepDecay ==
    (args.resume = "" /\ ~args.evaluate) =>
        /\ RatEq(state_lr, RatMul(args.lr,
                               RatPow(args.gamma, DecaysIn(StartedEpochs))))
        /\ \A g \in DOMAIN optimizer.param_groups :
               optimizer.param_groups[g].lr = state_lr
        /\ (args.start_epoch = 0 /\ args.schedule = <<1, 3>>
              /\ args.gamma = <<1, 10>>) =>
             /\ StartedEpochs \subseteq {0} => RatEq(state_lr, <<1, 10>>)
             /\ (1 \in StartedEpochs /\ 3 \notin StartedEpochs)
                  => RatEq(state_lr, <<1, 100>>)
             /\ 3 \in StartedEpochs => RatEq(state_lr, <<1, 1000>>)

\* C4 witness: the run with schedule [1, 3] has finished four epochs at
\* rate 0.001.
C4_Witness ==
    /\ args.resume = "" /\ ~args.evaluate /\ pc = "Done"
    /\ args.start_epoch = 0 /\ args.schedule = <<1, 3>>
    /\ args.gamma = <<1, 10>> /\ StartedEpochs = {0, 1, 2, 3}
    /\ RatEq(state_lr, <<1, 1000>>)

(* ------------------------------- C5 ----------------------------------- *)

\* The rate of a run that starts at args.start_epoch and is never
\* interrupted, while it runs epoch e (C4).
UninterruptedRate(e) ==
    RatMul(args.lr, RatPow(args.gamma, DecaysIn(args.start_epoch .. e)))

\* C5: in a resumed run the learning rate written to the run log equals
\* the rate of every parameter group and the rate an uninterrupted run has
\* at that epoch.
C5_LrRestored ==
    (Resumed /\ ~args.evaluate /\ logged # <<>> /\ pc = "Checkpointing") =>
        /\ \A g \in DOMAIN optimizer.param_groups :
               RatEq(logged[2], optimizer.param_groups[g].lr)
        /\ RatEq(logged[2], UninterruptedRate(logged[1] - 1))

(* ------------------------------- C6 ----------------------------------- *)

RECURSIVE IntPow(_, _)
IntPow(b, k) == IF k = 0 THEN 1 ELSE b * IntPow(b, k - 1)

\* The rational a value with a whole exponent <= 0 stands for.
ValAsRat(x) == <<x.mn, x.md * IntPow(x.b, (0 - x.en) \div x.ed)>>

IsOne(x) == x.kind = "fin" /\ x.mn = x.md /\ (x.en = 0 \/ x.b = 1)

BelowOne(x) ==
    x.kind = "zero" \/ (x.kind = "fin" /\ x.mn = x.md /\ x.b > 1 /\ x.en < 0)

\* C6: the profile has count(0) = 50000 / C and count(C - 1) = count(0) / r
\* and never increases with the class index; class 0's row is divided by 1;
\* for r > 1 and strength > 0 the last class's row is divided by a factor
\* below 1; for C = 10, r = 100, strength 1 that factor is 1/100.
C6_Profile ==
    num_sample # <<>> =>
      LET C == NumClasses(args.dataset)
          r == args.imbalance
          last == C - 1
      IN  /\ DOMAIN num_sample = 0 .. last
          /\ num_sample[0].en = 0
          /\ RatEq(ValAsRat(num_sample[0]), <<50000, C>>)
          /\ num_sample[last].en = 0 - num_sample[last].ed
          /\ RatEq(ValAsRat(num_sample[last]), <<50000, C * r>>)
          /\ \A i \in 0 .. last : \A j \in i .. last :
                 ~ValGt(num_sample[j], num_sample[i])
          /\ IsOne(ns[0])
          /\ model.fc[0] = <<ns[0]>>
          /\ model.fc[last] = <<ns[last]>>
          /\ (r > 1 /\ args.RS[1] > 0) => BelowOne(ns[last])
          /\ (C = 10 /\ r = 100 /\ args.RS = <<1, 1>>)
               => /\ ns[9].kind = "fin"
                  /\ ns[9].en = 0 - ns[9].ed
                  /\ RatEq(ValAsRat(ns[9]), <<1, 100>>)

\* C6 witness: 10 classes, r = 100, strength 1 have been rescaled: the last
\* row was divided by 1/100.
C6_Witness ==
    /\ pc = "EvalAfter" /\ args.dataset = "cifar10" /\ trueDiv
    /\ args.imbalance = 100 /\ args.RS = <<1, 1>>
    /\ RatEq(ValAsRat(model.fc[9][1]), <<1, 100>>)

(* ------------------------------- C7 ----------------------------------- *)

\* C7: every factor the classifier rows are divided by is strictly
\* positive.
C7_FactorsPositive ==
    /\ \A i \in DOMAIN ns : ns[i].kind = "fin"
    /\ \A i \in DOMAIN model.fc : \A k \in DOMAIN model.fc[i] :
           model.fc[i][k].kind = "fin"

(* ------------------------------- C8 ----------------------------------- *)

EvalPcs == {"Init", "EvalBefore", "Rescale", "EvalAfter"}

EvalTrace == <<"Test", "Rescale", "Test">>

\* C8: an evaluate-only process runs test, rescale, test and returns; none
\* of its steps changes a checkpoint file, the learning rate, the optimizer
\* or the trained parameters; it never trains; each classifier row is
\* divided exactly once.
C8_EvaluateOnly ==
    [][(args.evaluate /\ pc \in EvalPcs /\ pc' # "Crashed") =>
         /\ fs' = fs
         /\ state_lr' = state_lr
         /\ pc # "Init" => /\ optimizer' = optimizer
                           /\ model'.steps = model.steps
                           /\ best_acc' = best_acc
         /\ pc' \in (EvalPcs \cup {"Returned", "Failed"}) \ {"Init"}
         /\ Len(trace') <= 3
         /\ \A i \in DOMAIN trace' : trace'[i].ph = EvalTrace[i]
         /\ pc' = "Returned" =>
              /\ Len(trace') = 3
              /\ \A i \in DOMAIN model'.fc : Len(model'.fc[i]) = 1]_vars

\* C8 witness: after a training run left both checkpoint files, an
\* evaluate-only run resumed from one of them has returned.
C8_Witness ==
    /\ args.evaluate /\ pc = "Returned" /\ Resumed
    /\ fs.latest.status = "complete" /\ fs.best.status = "complete"
    /\ Len(trace) = 3 /\ model.steps > 0

(* ------------------------------- C9 ----------------------------------- *)

\* C9: after a crash, a best checkpoint that had been stored completely
\* before is still a complete record.
C9_CrashKeepsBest ==
    (pc = "Crashed" /\ bestOnDisk # -1) => fs.best.status = "complete"

(* ------------------------------- C10 ---------------------------------- *)

TrainPcs ==
    {"LoopHead", "Training", "Evaluating", "Checkpointing", "Writing",
     "CopyBest", "Copying"}

Phases == <<"Training", "Evaluating", "Checkpointing">>

\* Phases of the current epoch already executed at each position.
PhasesDone ==
    CASE pc \in {"LoopHead", "Training", "Done"} -> 0
      [] pc = "Evaluating" -> 1
      [] pc = "Checkpointing" -> 2
      [] OTHER -> 3

\* The trace of a training process is Training, Evaluating, Checkpointing
\* for start_epoch, start_epoch + 1, ... with no gap and no repeat.
TraceInOrder ==
    (~args.evaluate /\ pc \in TrainPcs \cup {"Done"}) =>
        /\ \A i \in DOMAIN trace :
               /\ trace[i].ph = Phases[((i - 1) % 3) + 1]
               /\ trace[i].ep = start_epoch + ((i - 1) \div 3)
        /\ Len(trace) = 3 * (epoch - start_epoch) + PhasesDone
        /\ pc \in TrainPcs \ {"LoopHead"} => epoch < args.epochs
        /\ pc = "Done" =>
             /\ printed = best_acc
             /\ best_acc = BestAfter(accs, Len(accs), InitialBest)
             /\ Len(accs) = Len(trace) \div 3
             /\ IF start_epoch >= args.epochs
                THEN /\ trace = <<>>
                     /\ args.resume = "" => fs.latest = NoFile /\ fs.best = NoFile
                     /\ Resumed => fs[args.resume].rec = checkpoint
                ELSE /\ Len(trace) = 3 * (args.epochs - start_epoch)
                     /\ fs.latest.status = "complete"
                     /\ fs.latest.rec.epoch = args.epochs

\* C10: a training run executes Training, Evaluating, Checkpointing once
\* per epoch of [start_epoch, epochs) in increasing order, changes the
\* files only while checkpointing, reaches Done, where it prints the best
\* accuracy, and reaches it with no epoch and no write when the range is
\* empty.
C10_EpochCycle ==
    /\ []TraceInOrder
    /\ [][fs' # fs => pc \in {"Checkpointing", "Writing", "CopyBest", "Copying"}]_vars
    /\ ((~args.evaluate /\ (pc \in TrainPcs \/ (pc = "Init" /\ args.resume = "")))
          ~> (pc = "Done"))

\* C10 witness: a run of four epochs has reached Done, and so C10's cycle
\* was walked four times.
C10_Witness ==
    /\ pc = "Done" /\ ~args.evaluate /\ args.epochs = 4 /\ start_epoch = 0
    /\ Len(trace) = 12 /\ printed = best_acc

\* C10, the empty range: a run with start_epoch >= epochs is Done with no
\* phase executed.
C10_EmptyWitness ==
    pc = "Done" /\ start_epoch >= args.epochs /\ trace = <<>>

====
